---- MODULE Spec2Model ----
\* Model of the Rubik's cube demo page (demo.html as listed in
\* TECHNICAL_DOCUMENTATION.md, script block lines 1138-1784): the facelet
\* state, the move engine applyMoveToCubeState, the oracle checkSolved and the
\* four control handlers scrambleCube, solveCube, resetCube and applyMove with
\* their animation-frame and timer callbacks.
\*
\* Facelet arrays keep the 0-based indices of the JavaScript arrays: a face is
\* a function 0..8 -> colour, the cube state a function face name -> face.
\*
\* The listing writes three indices with a stray apostrophe (lines 1470, 1530
\* and 1542: [5'], [3'], [3']); they are read as the indices 5, 3 and 3 that
\* the surrounding assignments of the same strip require.
EXTENDS Integers, Sequences, FiniteSets, TLC

\* ---------------------------------------------------------------------------
\* Bounds of the exploration
\* ---------------------------------------------------------------------------

\* Number of handler invocations that pass their guard in one behaviour.
MaxCalls ==
  2

\* Milliseconds between two animation frames (environment, not program).
FrameInterval ==
  150

\* ---------------------------------------------------------------------------
\* Program constants and data
\* ---------------------------------------------------------------------------

\* const duration = 300 in animateMoveVisual.
duration ==
  300

FaceNames ==
  {"U", "D", "F", "B", "R", "L"}

\* The twelve symbols the switch of applyMoveToCubeState has a case for.
Moves ==
  {"U", "U'", "D", "D'", "R", "R'", "L", "L'", "F", "F'", "B", "B'"}

\* A symbol that no case of the switch matches.
InvalidMoves ==
  {"X"}

\* Array(9).fill(c)
Fill(c) ==
  [i \in 0..8 |-> c]

\* let cubeState = {...} at script load.
InitialCubeState ==
  [f \in FaceNames |->
     CASE f = "U" -> Fill(0) [] f = "D" -> Fill(1) [] f = "F" -> Fill(2)
       [] f = "B" -> Fill(3) [] f = "R" -> Fill(4) [] f = "L" -> Fill(5)]

\* The reset literal with the L face filled with the colour of R.
ResetCubeState_WrongFill ==
  [f \in FaceNames |->
     CASE f = "U" -> Fill(0) [] f = "D" -> Fill(1) [] f = "F" -> Fill(2)
       [] f = "B" -> Fill(3) [] f = "R" -> Fill(4) [] f = "L" -> Fill(4)]

\* The object literal resetCube assigns to cubeState.
ResetCubeState ==
  [f \in FaceNames |->
     CASE f = "U" -> Fill(0) [] f = "D" -> Fill(1) [] f = "F" -> Fill(2)
       [] f = "B" -> Fill(3) [] f = "R" -> Fill(4) [] f = "L" -> Fill(5)]

\* const solvedState = {...} inside checkSolved.
solvedState ==
  [f \in FaceNames |->
     CASE f = "U" -> Fill(0) [] f = "D" -> Fill(1) [] f = "F" -> Fill(2)
       [] f = "B" -> Fill(3) [] f = "R" -> Fill(4) [] f = "L" -> Fill(5)]

\* const scrambleSequence in scrambleCube.
scrambleSequence ==
  <<"R", "U", "R'", "U'", "F", "R", "F'", "R'", "U", "R", "U'", "R'", "F'", "U'", "F">>

\* Array.prototype.reverse
Reverse(q) ==
  [i \in 1..Len(q) |-> q[Len(q) + 1 - i]]

\* const solutionSequence in solveCube: the literal list, reversed.
solutionSequence ==
  Reverse(<<"F'", "U", "F", "R", "U", "R'", "U", "R", "F", "R'", "F'", "U", "R", "U'", "R'", "F'", "U'", "F">>)

\* ---------------------------------------------------------------------------
\* Move engine
\* ---------------------------------------------------------------------------

\* rotateFaceletArrayClockwise with the last assignment reading index 8
\* instead of index 2.
rotateFaceletArrayClockwise_Slip(faceArray) ==
  [i \in 0..8 |->
     CASE i = 0 -> faceArray[6] [] i = 1 -> faceArray[3] [] i = 2 -> faceArray[0]
       [] i = 3 -> faceArray[7] [] i = 4 -> faceArray[4] [] i = 5 -> faceArray[1]
       [] i = 6 -> faceArray[8] [] i = 7 -> faceArray[5] [] i = 8 -> faceArray[8]]

rotateFaceletArrayClockwise(faceArray) ==
  [i \in 0..8 |->
     CASE i = 0 -> faceArray[6] [] i = 1 -> faceArray[3] [] i = 2 -> faceArray[0]
       [] i = 3 -> faceArray[7] [] i = 4 -> faceArray[4] [] i = 5 -> faceArray[1]
       [] i = 6 -> faceArray[8] [] i = 7 -> faceArray[5] [] i = 8 -> faceArray[2]]

\* rotateFaceletArrayCounterClockwise with the centre assignment reading
\* index 3 instead of index 4.
rotateFaceletArrayCounterClockwise_Centre(faceArray) ==
  [i \in 0..8 |->
     CASE i = 0 -> faceArray[2] [] i = 1 -> faceArray[5] [] i = 2 -> faceArray[8]
       [] i = 3 -> faceArray[1] [] i = 4 -> faceArray[3] [] i = 5 -> faceArray[7]
       [] i = 6 -> faceArray[0] [] i = 7 -> faceArray[3] [] i = 8 -> faceArray[6]]

rotateFaceletArrayCounterClockwise(faceArray) ==
  [i \in 0..8 |->
     CASE i = 0 -> faceArray[2] [] i = 1 -> faceArray[5] [] i = 2 -> faceArray[8]
       [] i = 3 -> faceArray[1] [] i = 4 -> faceArray[4] [] i = 5 -> faceArray[7]
       [] i = 6 -> faceArray[0] [] i = 7 -> faceArray[3] [] i = 8 -> faceArray[6]]

\* case 'U' of the switch: the turning face is rotated and the four
\* bordering strips are cycled; every right-hand side reads the old state.
Move_U(s) ==
  LET tempU == [k \in 0..2 |-> CASE k = 0 -> s["F"][0] [] k = 1 -> s["F"][1] [] k = 2 -> s["F"][2]]
  IN  [s EXCEPT
         !["U"] = rotateFaceletArrayClockwise(s["U"]),
         !["F"] = [@ EXCEPT ![0] = s["R"][0], ![1] = s["R"][1], ![2] = s["R"][2]],
         !["R"] = [@ EXCEPT ![0] = s["B"][0], ![1] = s["B"][1], ![2] = s["B"][2]],
         !["B"] = [@ EXCEPT ![0] = s["L"][0], ![1] = s["L"][1], ![2] = s["L"][2]],
         !["L"] = [@ EXCEPT ![0] = tempU[0], ![1] = tempU[1], ![2] = tempU[2]]]

\* case 'U'' of the switch: the turning face is rotated and the four
\* bordering strips are cycled; every right-hand side reads the old state.
Move_UPrime(s) ==
  LET tempUPrime == [k \in 0..2 |-> CASE k = 0 -> s["F"][0] [] k = 1 -> s["F"][1] [] k = 2 -> s["F"][2]]
  IN  [s EXCEPT
         !["U"] = rotateFaceletArrayCounterClockwise(s["U"]),
         !["F"] = [@ EXCEPT ![0] = s["L"][0], ![1] = s["L"][1], ![2] = s["L"][2]],
         !["L"] = [@ EXCEPT ![0] = s["B"][0], ![1] = s["B"][1], ![2] = s["B"][2]],
         !["B"] = [@ EXCEPT ![0] = s["R"][0], ![1] = s["R"][1], ![2] = s["R"][2]],
         !["R"] = [@ EXCEPT ![0] = tempUPrime[0], ![1] = tempUPrime[1], ![2] = tempUPrime[2]]]

\* case 'D' saving the top row of F (slice(0, 3)) in tempD.
Move_D_TopSlice(s) ==
  LET tempD == [k \in 0..2 |-> CASE k = 0 -> s["F"][0] [] k = 1 -> s["F"][1] [] k = 2 -> s["F"][2]]
  IN  [s EXCEPT
         !["D"] = rotateFaceletArrayClockwise(s["D"]),
         !["F"] = [@ EXCEPT ![6] = s["L"][6], ![7] = s["L"][7], ![8] = s["L"][8]],
         !["L"] = [@ EXCEPT ![6] = s["B"][6], ![7] = s["B"][7], ![8] = s["B"][8]],
         !["B"] = [@ EXCEPT ![6] = s["R"][6], ![7] = s["R"][7], ![8] = s["R"][8]],
         !["R"] = [@ EXCEPT ![6] = tempD[0], ![7] = tempD[1], ![8] = tempD[2]]]

\* case 'D' writing the strip taken from L into the middle row of F.
Move_D_MiddleRow(s) ==
  LET tempD == [k \in 0..2 |-> CASE k = 0 -> s["F"][6] [] k = 1 -> s["F"][7] [] k = 2 -> s["F"][8]]
  IN  [s EXCEPT
         !["D"] = rotateFaceletArrayClockwise(s["D"]),
         !["F"] = [@ EXCEPT ![3] = s["L"][6], ![4] = s["L"][7], ![5] = s["L"][8]],
         !["L"] = [@ EXCEPT ![6] = s["B"][6], ![7] = s["B"][7], ![8] = s["B"][8]],
         !["B"] = [@ EXCEPT ![6] = s["R"][6], ![7] = s["R"][7], ![8] = s["R"][8]],
         !["R"] = [@ EXCEPT ![6] = tempD[0], ![7] = tempD[1], ![8] = tempD[2]]]

\* case 'D' of the switch: the turning face is rotated and the four
\* bordering strips are cycled; every right-hand side reads the old state.
Move_D(s) ==
  LET tempD == [k \in 0..2 |-> CASE k = 0 -> s["F"][6] [] k = 1 -> s["F"][7] [] k = 2 -> s["F"][8]]
  IN  [s EXCEPT
         !["D"] = rotateFaceletArrayClockwise(s["D"]),
         !["F"] = [@ EXCEPT ![6] = s["L"][6], ![7] = s["L"][7], ![8] = s["L"][8]],
         !["L"] = [@ EXCEPT ![6] = s["B"][6], ![7] = s["B"][7], ![8] = s["B"][8]],
         !["B"] = [@ EXCEPT ![6] = s["R"][6], ![7] = s["R"][7], ![8] = s["R"][8]],
         !["R"] = [@ EXCEPT ![6] = tempD[0], ![7] = tempD[1], ![8] = tempD[2]]]

\* case 'D'' of the switch: the turning face is rotated and the four
\* bordering strips are cycled; every right-hand side reads the old state.
Move_DPrime(s) ==
  LET tempDPrime == [k \in 0..2 |-> CASE k = 0 -> s["F"][6] [] k = 1 -> s["F"][7] [] k = 2 -> s["F"][8]]
  IN  [s EXCEPT
         !["D"] = rotateFaceletArrayCounterClockwise(s["D"]),
         !["F"] = [@ EXCEPT ![6] = s["R"][6], ![7] = s["R"][7], ![8] = s["R"][8]],
         !["R"] = [@ EXCEPT ![6] = s["B"][6], ![7] = s["B"][7], ![8] = s["B"][8]],
         !["B"] = [@ EXCEPT ![6] = s["L"][6], ![7] = s["L"][7], ![8] = s["L"][8]],
         !["L"] = [@ EXCEPT ![6] = tempDPrime[0], ![7] = tempDPrime[1], ![8] = tempDPrime[2]]]

\* case 'R' of the switch: the turning face is rotated and the four
\* bordering strips are cycled; every right-hand side reads the old state.
Move_R(s) ==
  LET tempR == [k \in 0..2 |-> CASE k = 0 -> s["F"][2] [] k = 1 -> s["F"][5] [] k = 2 -> s["F"][8]]
  IN  [s EXCEPT
         !["R"] = rotateFaceletArrayClockwise(s["R"]),
         !["F"] = [@ EXCEPT ![2] = s["D"][2], ![5] = s["D"][5], ![8] = s["D"][8]],
         !["D"] = [@ EXCEPT ![2] = s["B"][6], ![5] = s["B"][3], ![8] = s["B"][0]],
         !["B"] = [@ EXCEPT ![0] = s["U"][8], ![3] = s["U"][5], ![6] = s["U"][2]],
         !["U"] = [@ EXCEPT ![2] = tempR[0], ![5] = tempR[1], ![8] = tempR[2]]]

\* case 'R'' of the switch: the turning face is rotated and the four
\* bordering strips are cycled; every right-hand side reads the old state.
Move_RPrime(s) ==
  LET tempRPrime == [k \in 0..2 |-> CASE k = 0 -> s["F"][2] [] k = 1 -> s["F"][5] [] k = 2 -> s["F"][8]]
  IN  [s EXCEPT
         !["R"] = rotateFaceletArrayCounterClockwise(s["R"]),
         !["F"] = [@ EXCEPT ![2] = s["U"][2], ![5] = s["U"][5], ![8] = s["U"][8]],
         !["U"] = [@ EXCEPT ![2] = s["B"][6], ![5] = s["B"][3], ![8] = s["B"][0]],
         !["B"] = [@ EXCEPT ![0] = s["D"][8], ![3] = s["D"][5], ![6] = s["D"][2]],
         !["D"] = [@ EXCEPT ![2] = tempRPrime[0], ![5] = tempRPrime[1], ![8] = tempRPrime[2]]]

\* case 'L' of the switch: the turning face is rotated and the four
\* bordering strips are cycled; every right-hand side reads the old state.
Move_L(s) ==
  LET tempL == [k \in 0..2 |-> CASE k = 0 -> s["F"][0] [] k = 1 -> s["F"][3] [] k = 2 -> s["F"][6]]
  IN  [s EXCEPT
         !["L"] = rotateFaceletArrayClockwise(s["L"]),
         !["F"] = [@ EXCEPT ![0] = s["U"][0], ![3] = s["U"][3], ![6] = s["U"][6]],
         !["U"] = [@ EXCEPT ![0] = s["B"][8], ![3] = s["B"][5], ![6] = s["B"][2]],
         !["B"] = [@ EXCEPT ![2] = s["D"][6], ![5] = s["D"][3], ![8] = s["D"][0]],
         !["D"] = [@ EXCEPT ![0] = tempL[0], ![3] = tempL[1], ![6] = tempL[2]]]

\* case 'L'' of the switch: the turning face is rotated and the four
\* bordering strips are cycled; every right-hand side reads the old state.
Move_LPrime(s) ==
  LET tempLPrime == [k \in 0..2 |-> CASE k = 0 -> s["F"][0] [] k = 1 -> s["F"][3] [] k = 2 -> s["F"][6]]
  IN  [s EXCEPT
         !["L"] = rotateFaceletArrayCounterClockwise(s["L"]),
         !["F"] = [@ EXCEPT ![0] = s["D"][0], ![3] = s["D"][3], ![6] = s["D"][6]],
         !["D"] = [@ EXCEPT ![0] = s["B"][8], ![3] = s["B"][5], ![6] = s["B"][2]],
         !["B"] = [@ EXCEPT ![2] = s["U"][6], ![5] = s["U"][3], ![8] = s["U"][0]],
         !["U"] = [@ EXCEPT ![0] = tempLPrime[0], ![3] = tempLPrime[1], ![6] = tempLPrime[2]]]

\* case 'F' of the switch: the turning face is rotated and the four
\* bordering strips are cycled; every right-hand side reads the old state.
Move_F(s) ==
  LET tempF == [k \in 0..2 |-> CASE k = 0 -> s["U"][6] [] k = 1 -> s["U"][7] [] k = 2 -> s["U"][8]]
  IN  [s EXCEPT
         !["F"] = rotateFaceletArrayClockwise(s["F"]),
         !["U"] = [@ EXCEPT ![6] = s["L"][8], ![7] = s["L"][5], ![8] = s["L"][2]],
         !["L"] = [@ EXCEPT ![2] = s["D"][0], ![5] = s["D"][1], ![8] = s["D"][2]],
         !["D"] = [@ EXCEPT ![0] = s["R"][6], ![1] = s["R"][3], ![2] = s["R"][0]],
         !["R"] = [@ EXCEPT ![0] = tempF[0], ![3] = tempF[1], ![6] = tempF[2]]]

\* case 'F'' of the switch: the turning face is rotated and the four
\* bordering strips are cycled; every right-hand side reads the old state.
Move_FPrime(s) ==
  LET tempFPrime == [k \in 0..2 |-> CASE k = 0 -> s["U"][6] [] k = 1 -> s["U"][7] [] k = 2 -> s["U"][8]]
  IN  [s EXCEPT
         !["F"] = rotateFaceletArrayCounterClockwise(s["F"]),
         !["U"] = [@ EXCEPT ![6] = s["R"][0], ![7] = s["R"][3], ![8] = s["R"][6]],
         !["R"] = [@ EXCEPT ![0] = s["D"][2], ![3] = s["D"][1], ![6] = s["D"][0]],
         !["D"] = [@ EXCEPT ![0] = s["L"][2], ![1] = s["L"][5], ![2] = s["L"][8]],
         !["L"] = [@ EXCEPT ![2] = tempFPrime[2], ![5] = tempFPrime[1], ![8] = tempFPrime[0]]]

\* case 'B' with the top row of U copied to the left column of L without the
\* index inversion.
Move_B_Unmirrored(s) ==
  LET tempB == [k \in 0..2 |-> CASE k = 0 -> s["U"][0] [] k = 1 -> s["U"][1] [] k = 2 -> s["U"][2]]
  IN  [s EXCEPT
         !["B"] = rotateFaceletArrayClockwise(s["B"]),
         !["U"] = [@ EXCEPT ![0] = s["R"][2], ![1] = s["R"][5], ![2] = s["R"][8]],
         !["R"] = [@ EXCEPT ![2] = s["D"][8], ![5] = s["D"][7], ![8] = s["D"][6]],
         !["D"] = [@ EXCEPT ![6] = s["L"][0], ![7] = s["L"][3], ![8] = s["L"][6]],
         !["L"] = [@ EXCEPT ![0] = tempB[0], ![3] = tempB[1], ![6] = tempB[2]]]

\* case 'B' of the switch: the turning face is rotated and the four
\* bordering strips are cycled; every right-hand side reads the old state.
Move_B(s) ==
  LET tempB == [k \in 0..2 |-> CASE k = 0 -> s["U"][0] [] k = 1 -> s["U"][1] [] k = 2 -> s["U"][2]]
  IN  [s EXCEPT
         !["B"] = rotateFaceletArrayClockwise(s["B"]),
         !["U"] = [@ EXCEPT ![0] = s["R"][2], ![1] = s["R"][5], ![2] = s["R"][8]],
         !["R"] = [@ EXCEPT ![2] = s["D"][8], ![5] = s["D"][7], ![8] = s["D"][6]],
         !["D"] = [@ EXCEPT ![6] = s["L"][0], ![7] = s["L"][3], ![8] = s["L"][6]],
         !["L"] = [@ EXCEPT ![0] = tempB[2], ![3] = tempB[1], ![6] = tempB[0]]]

\* case 'B'' of the switch: the turning face is rotated and the four
\* bordering strips are cycled; every right-hand side reads the old state.
Move_BPrime(s) ==
  LET tempBPrime == [k \in 0..2 |-> CASE k = 0 -> s["U"][0] [] k = 1 -> s["U"][1] [] k = 2 -> s["U"][2]]
  IN  [s EXCEPT
         !["B"] = rotateFaceletArrayCounterClockwise(s["B"]),
         !["U"] = [@ EXCEPT ![0] = s["L"][6], ![1] = s["L"][3], ![2] = s["L"][0]],
         !["L"] = [@ EXCEPT ![0] = s["D"][6], ![3] = s["D"][7], ![6] = s["D"][8]],
         !["D"] = [@ EXCEPT ![6] = s["R"][8], ![7] = s["R"][5], ![8] = s["R"][2]],
         !["R"] = [@ EXCEPT ![2] = tempBPrime[0], ![5] = tempBPrime[1], ![8] = tempBPrime[2]]]

\* The switch with the body of case 'U' also under case 'U\''.
applyMoveToCubeState_WrongCase(s, move) ==
  CASE move = "U"  -> Move_U(s)
    [] move = "U'" -> Move_U(s)
    [] move = "D"  -> Move_D(s)
    [] move = "D'" -> Move_DPrime(s)
    [] move = "R"  -> Move_R(s)
    [] move = "R'" -> Move_RPrime(s)
    [] move = "L"  -> Move_L(s)
    [] move = "L'" -> Move_LPrime(s)
    [] move = "F"  -> Move_F(s)
    [] move = "F'" -> Move_FPrime(s)
    [] move = "B"  -> Move_B(s)
    [] move = "B'" -> Move_BPrime(s)
    [] OTHER       -> s

\* The switch with a default branch that turns the U layer.
applyMoveToCubeState_Default(s, move) ==
  CASE move = "U"  -> Move_U(s)
    [] move = "U'" -> Move_UPrime(s)
    [] move = "D"  -> Move_D(s)
    [] move = "D'" -> Move_DPrime(s)
    [] move = "R"  -> Move_R(s)
    [] move = "R'" -> Move_RPrime(s)
    [] move = "L"  -> Move_L(s)
    [] move = "L'" -> Move_LPrime(s)
    [] move = "F"  -> Move_F(s)
    [] move = "F'" -> Move_FPrime(s)
    [] move = "B"  -> Move_B(s)
    [] move = "B'" -> Move_BPrime(s)
    [] OTHER       -> Move_U(s)

\* The switch without its case for B'.
applyMoveToCubeState_MissingCase(s, move) ==
  CASE move = "U"  -> Move_U(s)
    [] move = "U'" -> Move_UPrime(s)
    [] move = "D"  -> Move_D(s)
    [] move = "D'" -> Move_DPrime(s)
    [] move = "R"  -> Move_R(s)
    [] move = "R'" -> Move_RPrime(s)
    [] move = "L"  -> Move_L(s)
    [] move = "L'" -> Move_LPrime(s)
    [] move = "F"  -> Move_F(s)
    [] move = "F'" -> Move_FPrime(s)
    [] move = "B"  -> Move_B(s)
    [] OTHER       -> s

\* The switch of applyMoveToCubeState: newState is a deep copy of cubeState,
\* the matching case rewrites it, and a symbol without a case leaves the copy
\* as it is.  The result is what the function assigns to cubeState.
applyMoveToCubeState(s, move) ==
  CASE move = "U"  -> Move_U(s)
    [] move = "U'" -> Move_UPrime(s)
    [] move = "D"  -> Move_D(s)
    [] move = "D'" -> Move_DPrime(s)
    [] move = "R"  -> Move_R(s)
    [] move = "R'" -> Move_RPrime(s)
    [] move = "L"  -> Move_L(s)
    [] move = "L'" -> Move_LPrime(s)
    [] move = "F"  -> Move_F(s)
    [] move = "F'" -> Move_FPrime(s)
    [] move = "B"  -> Move_B(s)
    [] move = "B'" -> Move_BPrime(s)
    [] OTHER       -> s

\* checkSolved with the loop over the faces stopping after the first face.
checkSolved_FirstFace(s) ==
  \A faceName \in {"U"} : \A i \in 0..8 : s[faceName][i] = solvedState[faceName][i]

\* checkSolved: every facelet is compared with the facelet of solvedState.
checkSolved(s) ==
  \A faceName \in FaceNames : \A i \in 0..8 : s[faceName][i] = solvedState[faceName][i]

\* ---------------------------------------------------------------------------
\* State
\* ---------------------------------------------------------------------------

VARIABLES
  cubeState,    \* let cubeState: face name -> 9 colour indices
  moveHistory,  \* let moveHistory
  isSolved,     \* let isSolved
  isAnimating,  \* let isAnimating
  pc,           \* the async handler that is suspended at an await, or "idle"
  seqIdx,       \* position of its for-loop in its move sequence (1-based), 0 if none
  curMove,      \* its local variable move, "none" if no handler is suspended
  awaiting,     \* what it awaits: "anim" (animateMoveVisual), "timer" (setTimeout), "none"
  elapsed,      \* Date.now() - startTime of the running animateMoveVisual
  result,       \* how the latest handler invocation came back to its caller
  nCalls        \* invocations that passed their guard so far

vars ==
  <<cubeState, moveHistory, isSolved, isAnimating, pc, seqIdx, curMove, awaiting, elapsed, result, nCalls>>

\* The move list the suspended handler iterates over.
Sequence(op) ==
  CASE op = "scrambleCube" -> scrambleSequence
    [] op = "solveCube"    -> solutionSequence
    [] OTHER               -> <<curMove>>

\* Globals after the script has run and the load listener has called
\* initThreeJS(), resetCube() and updateUI().
Init ==
  /\ cubeState = InitialCubeState
  /\ moveHistory = <<>>
  /\ isSolved = TRUE
  /\ isAnimating = FALSE
  /\ pc = "idle"
  /\ seqIdx = 0
  /\ curMove = "none"
  /\ awaiting = "none"
  /\ elapsed = 0
  /\ result = "none"
  /\ nCalls = 0

\* An early return placed after the statement isSolved = false.
Return_AfterFlag ==
  /\ result' = "returned"
  /\ isSolved' = FALSE
  /\ UNCHANGED <<cubeState, moveHistory, isAnimating, pc, seqIdx, curMove, awaiting, elapsed, nCalls>>

\* A guard of a handler took its early return: nothing but the caller's view
\* of the call changes.
Return ==
  /\ result' = "returned"
  /\ UNCHANGED <<cubeState, moveHistory, isSolved, isAnimating, pc, seqIdx, curMove, awaiting, elapsed, nCalls>>

\* scrambleCube without the assignment moveHistory = [].
scrambleCube_KeepHistory ==
  \/ /\ isAnimating
     /\ Return
  \/ /\ ~isAnimating
     /\ nCalls < MaxCalls
     /\ isAnimating' = TRUE
     /\ isSolved' = FALSE
     /\ moveHistory' = Append(moveHistory, scrambleSequence[1])
     /\ pc' = "scrambleCube"
     /\ seqIdx' = 1
     /\ curMove' = scrambleSequence[1]
     /\ awaiting' = "anim"
     /\ elapsed' = 0
     /\ result' = "pending"
     /\ nCalls' = nCalls + 1
     /\ UNCHANGED cubeState

\* onclick="scrambleCube()": runs up to the first await, i.e. through the
\* first push and the first, synchronous animateStep of animateMoveVisual.
scrambleCube ==
  \/ /\ isAnimating
     /\ Return
  \/ /\ ~isAnimating
     /\ nCalls < MaxCalls
     /\ isAnimating' = TRUE
     /\ isSolved' = FALSE
     /\ moveHistory' = <<scrambleSequence[1]>>
     /\ pc' = "scrambleCube"
     /\ seqIdx' = 1
     /\ curMove' = scrambleSequence[1]
     /\ awaiting' = "anim"
     /\ elapsed' = 0
     /\ result' = "pending"
     /\ nCalls' = nCalls + 1
     /\ UNCHANGED cubeState

\* solveCube starting its history afresh, as scrambleCube does.
solveCube_ClearHistory ==
  \/ /\ (isAnimating \/ isSolved)
     /\ Return
  \/ /\ ~(isAnimating \/ isSolved)
     /\ nCalls < MaxCalls
     /\ isAnimating' = TRUE
     /\ moveHistory' = <<solutionSequence[1]>>
     /\ pc' = "solveCube"
     /\ seqIdx' = 1
     /\ curMove' = solutionSequence[1]
     /\ awaiting' = "anim"
     /\ elapsed' = 0
     /\ result' = "pending"
     /\ nCalls' = nCalls + 1
     /\ UNCHANGED <<cubeState, isSolved>>

\* solveCube guarded by isSolved alone.
solveCube_NoGuard ==
  \/ /\ isSolved
     /\ Return
  \/ /\ ~isSolved
     /\ nCalls < MaxCalls
     /\ isAnimating' = TRUE
     /\ moveHistory' = Append(moveHistory, solutionSequence[1])
     /\ pc' = "solveCube"
     /\ seqIdx' = 1
     /\ curMove' = solutionSequence[1]
     /\ awaiting' = "anim"
     /\ elapsed' = 0
     /\ result' = "pending"
     /\ nCalls' = nCalls + 1
     /\ UNCHANGED <<cubeState, isSolved>>

\* onclick="solveCube()"
solveCube ==
  \/ /\ (isAnimating \/ isSolved)
     /\ Return
  \/ /\ ~(isAnimating \/ isSolved)
     /\ nCalls < MaxCalls
     /\ isAnimating' = TRUE
     /\ moveHistory' = Append(moveHistory, solutionSequence[1])
     /\ pc' = "solveCube"
     /\ seqIdx' = 1
     /\ curMove' = solutionSequence[1]
     /\ awaiting' = "anim"
     /\ elapsed' = 0
     /\ result' = "pending"
     /\ nCalls' = nCalls + 1
     /\ UNCHANGED <<cubeState, isSolved>>

\* resetCube without the assignment isSolved = true.
resetCube_KeepFlag ==
  \/ /\ isAnimating
     /\ Return
  \/ /\ ~isAnimating
     /\ nCalls < MaxCalls
     /\ cubeState' = ResetCubeState
     /\ moveHistory' = <<>>
     /\ result' = "returned"
     /\ nCalls' = nCalls + 1
     /\ UNCHANGED <<isSolved, isAnimating, pc, seqIdx, curMove, awaiting, elapsed>>

\* onclick="resetCube()": synchronous.
resetCube ==
  \/ /\ isAnimating
     /\ Return
  \/ /\ ~isAnimating
     /\ nCalls < MaxCalls
     /\ cubeState' = ResetCubeState
     /\ moveHistory' = <<>>
     /\ isSolved' = TRUE
     /\ result' = "returned"
     /\ nCalls' = nCalls + 1
     /\ UNCHANGED <<isAnimating, pc, seqIdx, curMove, awaiting, elapsed>>

\* applyMove(move): the twelve buttons pass the twelve symbols; the function
\* is a global and accepts any string.
applyMove(move) ==
  \/ /\ isAnimating
     /\ Return
  \/ /\ ~isAnimating
     /\ nCalls < MaxCalls
     /\ isAnimating' = TRUE
     /\ isSolved' = FALSE
     /\ moveHistory' = Append(moveHistory, move)
     /\ pc' = "applyMove"
     /\ seqIdx' = 1
     /\ curMove' = move
     /\ awaiting' = "anim"
     /\ elapsed' = 0
     /\ result' = "pending"
     /\ nCalls' = nCalls + 1
     /\ UNCHANGED cubeState

\* The closing statements with isSolved set without consulting checkSolved.
Finish_AlwaysSolved(s) ==
  /\ isAnimating' = FALSE
  /\ isSolved' = TRUE
  /\ pc' = "idle"
  /\ seqIdx' = 0
  /\ curMove' = "none"
  /\ awaiting' = "none"
  /\ result' = "fulfilled"

\* The statements after the for-loop of scrambleCube / solveCube and after the
\* awaited animation of applyMove: the flags are set from the state s and the
\* async function's promise is fulfilled.
Finish(s) ==
  /\ isAnimating' = FALSE
  /\ isSolved' = checkSolved(s)
  /\ pc' = "idle"
  /\ seqIdx' = 0
  /\ curMove' = "none"
  /\ awaiting' = "none"
  /\ result' = "fulfilled"

\* animateStep reading the start time anew at every frame, so that no time
\* ever elapses.
animateStep_FrozenClock ==
  /\ awaiting = "anim"
  /\ LET now == elapsed
         \* progress = Math.min(elapsed / duration, 1), kept in thousandths
         progress == IF (now * 1000) \div duration < 1000 THEN (now * 1000) \div duration ELSE 1000
         newState == applyMoveToCubeState(cubeState, curMove)
     IN  \/ /\ progress < 1000
            /\ elapsed' = now
            /\ UNCHANGED <<cubeState, moveHistory, isSolved, isAnimating, pc, seqIdx, curMove, awaiting, result, nCalls>>
         \/ /\ progress >= 1000
            /\ pc \in {"scrambleCube", "solveCube"}
            /\ cubeState' = newState
            /\ awaiting' = "timer"
            /\ elapsed' = 0
            /\ UNCHANGED <<moveHistory, isSolved, isAnimating, pc, seqIdx, curMove, result, nCalls>>
         \/ /\ progress >= 1000
            /\ pc = "applyMove"
            /\ cubeState' = newState
            /\ elapsed' = 0
            /\ Finish(newState)
            /\ UNCHANGED <<moveHistory, nCalls>>

\* animateStep as a requestAnimationFrame callback.  While progress < 1 it
\* re-registers itself; at progress 1 it resolves the promise and the handler
\* resumes in the same turn: applyMoveToCubeState(move), updateCubeColors(),
\* then either the 100 ms timer (loops) or the final statements (applyMove).
animateStep ==
  /\ awaiting = "anim"
  /\ LET now == elapsed + FrameInterval
         \* progress = Math.min(elapsed / duration, 1), kept in thousandths
         progress == IF (now * 1000) \div duration < 1000 THEN (now * 1000) \div duration ELSE 1000
         newState == applyMoveToCubeState(cubeState, curMove)
     IN  \/ /\ progress < 1000
            /\ elapsed' = now
            /\ UNCHANGED <<cubeState, moveHistory, isSolved, isAnimating, pc, seqIdx, curMove, awaiting, result, nCalls>>
         \/ /\ progress >= 1000
            /\ pc \in {"scrambleCube", "solveCube"}
            /\ cubeState' = newState
            /\ awaiting' = "timer"
            /\ elapsed' = 0
            /\ UNCHANGED <<moveHistory, isSolved, isAnimating, pc, seqIdx, curMove, result, nCalls>>
         \/ /\ progress >= 1000
            /\ pc = "applyMove"
            /\ cubeState' = newState
            /\ elapsed' = 0
            /\ Finish(newState)
            /\ UNCHANGED <<moveHistory, nCalls>>

\* The setTimeout(resolve, 100) callback between two moves of a scramble or a
\* solve: the loop takes its next move (push, first animateStep) or ends.
timerFired ==
  /\ awaiting = "timer"
  /\ LET seq == Sequence(pc)
     IN  \/ /\ seqIdx < Len(seq)
            /\ seqIdx' = seqIdx + 1
            /\ curMove' = seq[seqIdx + 1]
            /\ moveHistory' = Append(moveHistory, seq[seqIdx + 1])
            /\ awaiting' = "anim"
            /\ elapsed' = 0
            /\ UNCHANGED <<cubeState, isSolved, isAnimating, pc, result, nCalls>>
         \/ /\ seqIdx >= Len(seq)
            /\ Finish(cubeState)
            /\ UNCHANGED <<cubeState, moveHistory, elapsed, nCalls>>

Next ==
  \/ scrambleCube
  \/ solveCube
  \/ resetCube
  \/ \E move \in Moves \cup InvalidMoves : applyMove(move)
  \/ animateStep
  \/ timerFired

Spec ==
  Init /\ [][Next]_vars

\* The browser runs every requested animation frame and every timer that has
\* expired.
FairSpec ==
  Spec /\ WF_vars(animateStep) /\ WF_vars(timerFired)

\* ---------------------------------------------------------------------------
\* Vocabulary of the properties
\* ---------------------------------------------------------------------------

\* The inverse of a move symbol: primed <-> unprimed.
InverseMove(m) ==
  CASE m = "U" -> "U'" [] m = "U'" -> "U" [] m = "D" -> "D'" [] m = "D'" -> "D"
    [] m = "R" -> "R'" [] m = "R'" -> "R" [] m = "L" -> "L'" [] m = "L'" -> "L"
    [] m = "F" -> "F'" [] m = "F'" -> "F" [] m = "B" -> "B'" [] m = "B'" -> "B"

\* The face a move symbol turns, and whether the symbol is primed.
MoveFace(m) ==
  CASE m \in {"U", "U'"} -> "U" [] m \in {"D", "D'"} -> "D" [] m \in {"R", "R'"} -> "R"
    [] m \in {"L", "L'"} -> "L" [] m \in {"F", "F'"} -> "F" [] m \in {"B", "B'"} -> "B"

IsPrimed(m) ==
  m \in {"U'", "D'", "R'", "L'", "F'", "B'"}

\* The colour assigned to each face: U=0, D=1, F=2, B=3, R=4, L=5.
AssignedColor(f) ==
  CASE f = "U" -> 0 [] f = "D" -> 1 [] f = "F" -> 2 [] f = "B" -> 3 [] f = "R" -> 4 [] f = "L" -> 5

\* Opposite colours of the scheme: 0/1, 2/3, 4/5.
OppositeColors(c, d) ==
  c # d /\ (c \div 2) = (d \div 2)

\* Every facelet of every face equals the centre (index 4) of its face.
AllFacesUniform(s) ==
  \A f \in FaceNames : \A i \in 0..8 : s[f][i] = s[f][4]

\* The last element of the move history.
LastMove ==
  moveHistory[Len(moveHistory)]

\* Every recorded move is one of the twelve symbols.
HistoryValid ==
  \A k \in 1..Len(moveHistory) : moveHistory[k] \in Moves

\* --- A real cube, independent of the program's tables ----------------------
\* Cubie positions are the points of {-1,0,1}^3, x to the right, y up, z to
\* the front.  A facelet is a position in a face's layer together with that
\* face's outward normal.

Normal(f) ==
  CASE f = "U" -> <<0, 1, 0>> [] f = "D" -> <<0, -1, 0>> [] f = "F" -> <<0, 0, 1>>
    [] f = "B" -> <<0, 0, -1>> [] f = "R" -> <<1, 0, 0>> [] f = "L" -> <<-1, 0, 0>>

Positions ==
  {<<x, y, z>> : x \in -1..1, y \in -1..1, z \in -1..1}

Dot(a, b) ==
  a[1] * b[1] + a[2] * b[2] + a[3] * b[3]

Cross(a, b) ==
  <<a[2] * b[3] - a[3] * b[2], a[3] * b[1] - a[1] * b[3], a[1] * b[2] - a[2] * b[1]>>

\* Row-major index of the facelet of face f at position p: side faces are read
\* facing them with U on top, U with its bottom row bordering F, D with its
\* top row bordering F.
RefIndex(f, p) ==
  LET x == p[1]  y == p[2]  z == p[3]
  IN  CASE f = "U" -> (z + 1) * 3 + (x + 1)
        [] f = "D" -> (1 - z) * 3 + (x + 1)
        [] f = "F" -> (1 - y) * 3 + (x + 1)
        [] f = "B" -> (1 - y) * 3 + (1 - x)
        [] f = "R" -> (1 - y) * 3 + (1 - z)
        [] f = "L" -> (1 - y) * 3 + (z + 1)

RefPosition(f, i) ==
  CHOOSE p \in Positions : Dot(p, Normal(f)) = 1 /\ RefIndex(f, p) = i

FaceWithNormal(n) ==
  CHOOSE f \in FaceNames : Normal(f) = n

\* v turned by 90 degrees about the unit axis a: clockwise as seen from the
\* tip of a looking at the origin (cw), or counter-clockwise.
QuarterTurn(a, v, cw) ==
  LET d == Dot(a, v)
      c == Cross(a, v)
  IN  IF cw THEN <<a[1] * d - c[1], a[2] * d - c[2], a[3] * d - c[3]>>
            ELSE <<a[1] * d + c[1], a[2] * d + c[2], a[3] * d + c[3]>>

\* For each move and each facelet <<f, i>>, the facelet whose sticker a real
\* quarter turn brings there (the facelet itself outside the turning layer).
RefSource ==
  [m \in Moves |-> [f \in FaceNames |-> [i \in 0..8 |->
     LET a == Normal(MoveFace(m))
         p == RefPosition(f, i)
     IN  IF Dot(p, a) = 1
         THEN LET q == QuarterTurn(a, p, IsPrimed(m))
                  g == FaceWithNormal(QuarterTurn(a, Normal(f), IsPrimed(m)))
              IN  <<g, RefIndex(g, q)>>
         ELSE <<f, i>>]]]

\* The state a real cube in state s is in after the quarter turn m.
RefTurn(s, m) ==
  LET r == RefSource[m]
  IN  [f \in FaceNames |-> [i \in 0..8 |-> LET x == r[f][i] IN s[x[1]][x[2]]]]

\* A cube whose 54 facelets carry 54 different labels.
Labelled ==
  [f \in FaceNames |-> [i \in 0..8 |-> <<f, i>>]]

\* The facelets of each edge and corner cubie.
Cubies ==
  {{<<f, RefIndex(f, p)>> : f \in {g \in FaceNames : Dot(p, Normal(g)) = 1}} :
     p \in {q \in Positions : Dot(q, q) >= 2}}

\* The facelets of every edge and corner cubie show pairwise distinct,
\* non-opposite colours.
LegalCubies(s) ==
  \A cubie \in Cubies : \A a \in cubie : \A b \in cubie :
     a # b => /\ s[a[1]][a[2]] # s[b[1]][b[2]]
              /\ ~OppositeColors(s[a[1]][a[2]], s[b[1]][b[2]])

\* ---------------------------------------------------------------------------
\* Properties
\* ---------------------------------------------------------------------------

\* C1 - Inverse law: in every reachable cube state, applying any of the twelve
\* moves and then its inverse gives back the state, facelet for facelet.
C1_InverseLaw ==
  \A m \in Moves :
     applyMoveToCubeState(applyMoveToCubeState(cubeState, m), InverseMove(m)) = cubeState

\* An unsolved state at rest in which a move changes the state and its inverse
\* restores it.
C1_Witness ==
  /\ pc = "idle"
  /\ ~checkSolved(cubeState)
  /\ \E m \in Moves :
        LET t == applyMoveToCubeState(cubeState, m)
        IN  t # cubeState /\ applyMoveToCubeState(t, InverseMove(m)) = cubeState

\* Four applications of the same move.
FourTimes(s, m) ==
  applyMoveToCubeState(applyMoveToCubeState(applyMoveToCubeState(applyMoveToCubeState(s, m), m), m), m)

\* C2 - Order-4 law: in every reachable cube state, applying any of the twelve
\* moves four times in a row gives back the state, facelet for facelet.
C2_OrderFour ==
  \A m \in Moves : FourTimes(cubeState, m) = cubeState

\* An unsolved state in which two applications of a move do not yet restore
\* the state but four do.
C2_Witness ==
  /\ ~checkSolved(cubeState)
  /\ \E m \in Moves :
        /\ applyMoveToCubeState(applyMoveToCubeState(cubeState, m), m) # cubeState
        /\ FourTimes(cubeState, m) = cubeState

\* C3 - Scramble-then-solve (as claimed): when the first two invocations of a
\* session were scrambleCube, from the solved cube, and then solveCube, and
\* both have run to completion, the cube is solved and isSolved is true.
C3_ScrambleThenSolve ==
  (nCalls = 2 /\ pc = "idle" /\ moveHistory = scrambleSequence \o solutionSequence)
     => (checkSolved(cubeState) /\ isSolved)

\* C4 - Solve from any reachable state (as claimed): whenever solveCube runs to
\* completion, the cube it leaves is solved.
C4_SolveAlwaysSolves ==
  [][(pc = "solveCube" /\ pc' = "idle") => checkSolved(cubeState')]_vars

\* C5 - Invalid move leaves the state unchanged: a symbol outside the twelve
\* maps every reachable cube state to itself under applyMoveToCubeState, and no
\* step of an applyMove call made with such a symbol changes any facelet.
C5_InvalidMoveKeepsState ==
  [][/\ \A x \in InvalidMoves : applyMoveToCubeState(cubeState, x) = cubeState
     /\ ((pc = "applyMove" /\ curMove \in InvalidMoves) => cubeState' = cubeState)]_vars

\* applyMove("X") has run to completion on an unsolved cube.
C5_Witness ==
  /\ pc = "idle"
  /\ result = "fulfilled"
  /\ moveHistory # <<>>
  /\ LastMove \in InvalidMoves
  /\ ~checkSolved(cubeState)

\* C6 - Invalid move is signalled (as claimed): once applyMove has been called
\* with a symbol outside the twelve, the call has failed with an error (its
\* promise is rejected) and the symbol is not recorded as an applied move.
C6_InvalidMoveSignalled ==
  (moveHistory # <<>> /\ LastMove \in InvalidMoves /\ pc = "idle")
     => result = "rejected"

\* C7 - Solved-state oracle: in every reachable state (each is reached from the
\* solved cube by the twelve moves), checkSolved is true exactly if all nine
\* facelets of each of the six faces equal that face's centre facelet.
C7_OracleIffUniform ==
  checkSolved(cubeState) <=> AllFacesUniform(cubeState)

\* A cube that moves have changed and brought back: checkSolved holds again.
C7_Witness ==
  /\ pc = "idle"
  /\ Len(moveHistory) >= 2
  /\ HistoryValid
  /\ checkSolved(cubeState)
  /\ AllFacesUniform(cubeState)

\* C8 - New solved state: the initial cube and the cube resetCube produces
\* (the only states with an empty move history) have every face uniformly its
\* assigned colour and satisfy checkSolved.
C8_NewStateSolved ==
  moveHistory = <<>> =>
     /\ \A f \in FaceNames : \A i \in 0..8 : cubeState[f][i] = AssignedColor(f)
     /\ checkSolved(cubeState)

\* resetCube has just run, after some earlier operation.
C8_Witness ==
  /\ moveHistory = <<>>
  /\ nCalls >= 2
  /\ result = "returned"
  /\ checkSolved(cubeState)

\* On a cube of 54 distinct labels each case acts as the quarter turn does.
QuarterTurnsOnLabels ==
  \A m \in Moves : applyMoveToCubeState(Labelled, m) = RefTurn(Labelled, m)

\* C9 - Moves are the physical quarter turns: each of the twelve cases acts on
\* the 54 facelets as the quarter turn of that layer of a real cube does
\* (clockwise for unprimed, counter-clockwise for primed symbols), on a cube of
\* 54 distinct labels and on the current state, and in every reachable state
\* the facelets of each edge and corner cubie show pairwise distinct,
\* non-opposite colours.
C9_PhysicalQuarterTurns ==
  /\ QuarterTurnsOnLabels
  /\ \A m \in Moves : applyMoveToCubeState(cubeState, m) = RefTurn(cubeState, m)
  /\ LegalCubies(cubeState)

\* An unsolved, legal state in which every move changes the cube as the real
\* quarter turn does.
C9_Witness ==
  /\ ~checkSolved(cubeState)
  /\ LegalCubies(cubeState)
  /\ \A m \in Moves :
        /\ RefTurn(cubeState, m) # cubeState
        /\ applyMoveToCubeState(cubeState, m) = RefTurn(cubeState, m)

\* Number of facelets of colour c.
ColorCount(s, c) ==
  Cardinality({fi \in FaceNames \X (0..8) : s[fi[1]][fi[2]] = c})

\* C10 - Colour-count invariant: in every state reachable by scramble, solve,
\* manual move and reset, each colour 0..5 is on exactly nine facelets.
C10_ColorCount ==
  \A c \in 0..5 : ColorCount(cubeState, c) = 9

\* A state in the middle of a solve that followed other operations: unsolved,
\* with no face uniform, and nine facelets of each colour.
C10_Witness ==
  /\ pc = "solveCube"
  /\ \A f \in FaceNames : \E i \in 0..8 : cubeState[f][i] # cubeState[f][4]
  /\ \A c \in 0..5 : ColorCount(cubeState, c) = 9


\* C11 - Centre invariant: in every reachable state, facelet 4 of each face
\* has its initial value (U=0, D=1, F=2, B=3, R=4, L=5).
C11_CentreInvariant ==
  \A f \in FaceNames : cubeState[f][4] = AssignedColor(f)

\* An unsolved state in which every face has lost its uniform colour on some
\* facelet other than the centre, reached by primed and unprimed moves.
C11_Witness ==
  /\ ~checkSolved(cubeState)
  /\ \E k \in 1..Len(moveHistory) : IsPrimed(moveHistory[k])
  /\ \A f \in FaceNames : \E i \in (0..8) \ {4} : cubeState[f][i] # AssignedColor(f)
  /\ \A f \in FaceNames : cubeState[f][4] = AssignedColor(f)

\* The moves of q applied in order, each by applyMoveToCubeState.
RECURSIVE ApplySeq(_, _)
ApplySeq(s, q) ==
  IF q = <<>> THEN s ELSE ApplySeq(applyMoveToCubeState(s, Head(q)), Tail(q))

\* The literal inverse of each move of q, in reverse order.
InverseSeq(q) ==
  [i \in 1..Len(q) |-> InverseMove(q[Len(q) + 1 - i])]

\* C12 - Scramble round-trip: from every reachable state, the scramble's move
\* list followed by the inverse of each of its moves in reverse order gives
\* back the state.
C12_ScrambleRoundTrip ==
  ApplySeq(ApplySeq(cubeState, scrambleSequence), InverseSeq(scrambleSequence)) = cubeState

\* An unsolved state that the scramble list changes and the inverse list
\* restores.
C12_Witness ==
  /\ ~checkSolved(cubeState)
  /\ ApplySeq(cubeState, scrambleSequence) # cubeState
  /\ ApplySeq(ApplySeq(cubeState, scrambleSequence), InverseSeq(scrambleSequence)) = cubeState


\* Postcondition of the first phase: the four edge facelets of the Up face
\* show the Up centre's colour and the facelet beside each of them shows the
\* centre colour of its side face.
CrossDone(s) ==
  /\ \A i \in {1, 3, 5, 7} : s["U"][i] = s["U"][4]
  /\ \A f \in {"F", "R", "B", "L"} : s[f][1] = s[f][4]

\* C13 - Phase order (as claimed): a postcondition of an earlier phase that
\* holds during a solve still holds in the solve's final state; here, for the
\* first phase: when solveCube completes a run that it began on a cube with
\* the Up cross placed and aligned, the final cube has the Up cross placed
\* and aligned.
C13_CrossKeptBySolve ==
  [][(/\ pc = "solveCube"
      /\ pc' = "idle"
      /\ CrossDone(ApplySeq(cubeState', InverseSeq(solutionSequence))))
        => CrossDone(cubeState')]_vars


\* a is a prefix of b.
IsPrefix(a, b) ==
  Len(a) <= Len(b) /\ SubSeq(b, 1, Len(a)) = a

\* C14 - Append-only history (as claimed): across every step that is not a
\* resetCube step, the previous moveHistory is a prefix of the new one.
C14_AppendOnlyExceptReset ==
  [][~resetCube => IsPrefix(moveHistory, moveHistory')]_vars

\* C14 - Append-only history (amended): across every step that is neither a
\* resetCube step nor the start of a scramble, the previous moveHistory is a
\* prefix of the new one.
C14_AppendOnlyExceptResetAndScramble ==
  [][(~resetCube /\ ~(scrambleCube /\ ~isAnimating)) => IsPrefix(moveHistory, moveHistory')]_vars

\* A solve is appending its moves to the history of an earlier operation.
C14_Witness ==
  /\ pc = "solveCube"
  /\ seqIdx >= 2
  /\ Len(moveHistory) > seqIdx


\* What a reset is said to leave behind, as a predicate on the next state:
\* every face uniformly its assigned colour, an empty history, isSolved true.
AfterReset ==
  /\ \A f \in FaceNames : \A i \in 0..8 : cubeState'[f][i] = AssignedColor(f)
  /\ moveHistory' = <<>>
  /\ isSolved'

\* C15 - Explicit reset (as claimed): after any invocation of resetCube the
\* cube is solved, moveHistory is empty and isSolved is true.
C15_ResetAlwaysResets ==
  [][resetCube => AfterReset]_vars

\* C15 - Explicit reset (amended): after an invocation of resetCube made while
\* isAnimating is false, the cube is solved, moveHistory is empty and isSolved
\* is true.
C15_ResetWhenIdleResets ==
  [][(resetCube /\ ~isAnimating) => AfterReset]_vars

\* A reset has run after an earlier operation and left the session at rest.
C15_Witness ==
  /\ nCalls >= 2
  /\ ~isAnimating
  /\ isSolved
  /\ moveHistory = <<>>
  /\ AllFacesUniform(cubeState)


\* C16 - Scramble returns the exact move list: a scramble starts with the
\* first move of the list; each change it makes to the cube is the application
\* of the move at its position to the state before; the position advances by
\* one, only after that move has been applied, and the scramble ends only
\* after the last move has been applied; meanwhile moveHistory is the list up
\* to the position, and on completion it is exactly the scramble list, so the
\* cube is the start state with the list applied in order.
C16_ScrambleExactList ==
  [][/\ (pc # "scrambleCube" /\ pc' = "scrambleCube") =>
          /\ cubeState' = cubeState
          /\ seqIdx' = 1
          /\ awaiting' = "anim"
          /\ moveHistory' = SubSeq(scrambleSequence, 1, 1)
     /\ (pc = "scrambleCube" /\ pc' = "scrambleCube") =>
          /\ moveHistory' = SubSeq(scrambleSequence, 1, seqIdx')
          /\ \/ /\ cubeState' = cubeState
                /\ seqIdx' = seqIdx
                /\ awaiting' = awaiting
             \/ /\ awaiting = "anim"
                /\ awaiting' = "timer"
                /\ seqIdx' = seqIdx
                /\ cubeState' = applyMoveToCubeState(cubeState, scrambleSequence[seqIdx])
             \/ /\ awaiting = "timer"
                /\ awaiting' = "anim"
                /\ seqIdx' = seqIdx + 1
                /\ cubeState' = cubeState
     /\ (pc = "scrambleCube" /\ pc' = "idle") =>
          /\ awaiting = "timer"
          /\ seqIdx = Len(scrambleSequence)
          /\ cubeState' = cubeState
          /\ moveHistory' = scrambleSequence]_vars

\* A scramble has completed that started on an unsolved cube with a non-empty
\* history.
C16_Witness ==
  /\ pc = "idle"
  /\ result = "fulfilled"
  /\ nCalls >= 2
  /\ moveHistory = scrambleSequence
  /\ cubeState # ApplySeq(InitialCubeState, scrambleSequence)


\* C17 - Single owner, no re-entry: a handler call passes its guard only when
\* no operation is between its start and its completion; while one is, no step hands the cube
\* to another operation or starts it again, and every change of the cube
\* state is that operation applying its current move.
C17_SingleOwner ==
  [][/\ (nCalls' # nCalls \/ (pc = "idle" /\ pc' # "idle")) => (pc = "idle" /\ ~isAnimating)
     /\ (pc # "idle") =>
          /\ isAnimating
          /\ pc' \in {pc, "idle"}
          /\ (pc' = pc) => seqIdx' \in {seqIdx, seqIdx + 1}
          /\ (cubeState' # cubeState) =>
               /\ awaiting = "anim"
               /\ cubeState' = applyMoveToCubeState(cubeState, Sequence(pc)[seqIdx])]_vars

\* A click arrived and was dropped while a solution playback was past its
\* first move.
C17_Witness ==
  /\ pc = "solveCube"
  /\ isAnimating
  /\ seqIdx > 1
  /\ result = "returned"


\* C18 - Operations run to completion: with animation frames and timers
\* scheduled fairly, every started scrambleCube, solveCube and applyMove ends;
\* it ends only after the last of its 15, 18 or 1 moves, never goes past it,
\* and leaves isAnimating false.
C18_RunToCompletion ==
  /\ Len(scrambleSequence) = 15
  /\ Len(solutionSequence) = 18
  /\ [](pc # "idle" => (seqIdx >= 1 /\ seqIdx <= Len(Sequence(pc)) /\ Len(Sequence(pc)) \in {15, 18, 1}))
  /\ [][(pc # "idle" /\ pc' = "idle") => (seqIdx = Len(Sequence(pc)) /\ ~isAnimating')]_vars
  /\ \A op \in {"scrambleCube", "solveCube", "applyMove"} :
       (pc = op) ~> (pc = "idle" /\ ~isAnimating)

\* A scramble and then a solve have both run to completion: 33 moves.
C18_Witness ==
  /\ pc = "idle"
  /\ ~isAnimating
  /\ result = "fulfilled"
  /\ Len(moveHistory) = 33


\* C19 - Every move changes the state: in every cube state the program
\* reaches, each of the twelve valid moves gives a state that differs from it
\* in at least one facelet.
C19_MoveChangesState ==
  \A m \in Moves :
    LET t == applyMoveToCubeState(cubeState, m)
    IN  \E f \in FaceNames : \E i \in 0..8 : t[f][i] # cubeState[f][i]

\* One valid move has been applied to the new cube and has changed it.
C19_Witness ==
  /\ pc = "idle"
  /\ Len(moveHistory) = 1
  /\ moveHistory[1] \in Moves
  /\ cubeState = applyMoveToCubeState(InitialCubeState, moveHistory[1])
  /\ cubeState # InitialCubeState

\* C20 - A scrambled cube is not solved: once scrambleCube has run to
\* completion on the solved cube, checkSolved() is false and the isSolved
\* flag is false.
C20_ScrambledNotSolved ==
  (/\ pc = "idle"
   /\ result = "fulfilled"
   /\ moveHistory = scrambleSequence
   /\ cubeState = ApplySeq(InitialCubeState, scrambleSequence))
    => (~checkSolved(cubeState) /\ ~isSolved)

\* The first operation was a scramble of the new cube and it has completed.
C20_Witness ==
  /\ pc = "idle"
  /\ result = "fulfilled"
  /\ nCalls = 1
  /\ moveHistory = scrambleSequence
  /\ cubeState = ApplySeq(InitialCubeState, scrambleSequence)
  /\ ~isSolved


\* The 26 pieces createRubiksCubePieces builds: every position but the core.
cubePieces ==
  {p \in Positions : p # <<0, 0, 0>>}

\* const faceletIndex of updateCubeColors for the face f of the piece at
\* userData position p.
faceletIndex(f, p) ==
  LET x == p[1]  y == p[2]  z == p[3]
  IN  CASE f = "U" -> (1 - z) * 3 + (x + 1)
        [] f = "D" -> (z + 1) * 3 + (x + 1)
        [] f = "F" -> (1 - y) * 3 + (x + 1)
        [] f = "B" -> (1 - y) * 3 + (1 - x)
        [] f = "R" -> (1 - y) * 3 + (1 - z)
        [] f = "L" -> (1 - y) * 3 + (z + 1)

\* updateCubeColors: the colours painted on each piece, as a function from the
\* piece's outward faces to colours of s (its other materials stay dark).
updateCubeColors(s) ==
  [p \in cubePieces |->
     [f \in {g \in FaceNames : Dot(p, Normal(g)) = 1} |-> s[f][faceletIndex(f, p)]]]

\* C21 - Display synchronized with the logical state (as claimed): in every
\* reachable state the 2 colours updateCubeColors paints on an edge piece and
\* the 3 colours it paints on a corner piece are pairwise distinct and never
\* an opposite pair, as the facelets of one physical cubie are.
C21_DisplaySynchronized ==
  \A p \in cubePieces :
     LET shown == updateCubeColors(cubeState)[p]
     IN  \A f \in DOMAIN shown : \A g \in DOMAIN shown :
            f # g => (shown[f] # shown[g] /\ ~OppositeColors(shown[f], shown[g]))


\* generateCubePieces of RubiksCube3D: the colors array of each CubePiece,
\* as a function from the piece's outward faces to sticker colours.  The
\* component receives the prop cubeState (s) and never reads it.
generateCubePieces(s) ==
  [p \in cubePieces |->
     [f \in {g \in FaceNames : Dot(p, Normal(g)) = 1} |->
        CASE f = "R" -> 4
          [] f = "L" -> 5
          [] f = "U" -> 0
          [] f = "D" -> 1
          [] f = "F" -> 2
          [] f = "B" -> 3]]

\* C22 - The React viewer shows the state it is given (as claimed): for the
\* cube state passed to RubiksCube3D, the sticker rendered on each visible
\* face of each piece equals the facelet of that state at that place.
C22_ViewerShowsState ==
  \A p \in cubePieces :
     \A f \in DOMAIN generateCubePieces(cubeState)[p] :
        generateCubePieces(cubeState)[p][f] = cubeState[f][RefIndex(f, p)]


\* The clockwise index permutation [6,3,0,7,4,1,8,5,2] (position i, counted
\* from 0, is element i + 1) and its inverse.
ClockwisePermutation ==
  <<6, 3, 0, 7, 4, 1, 8, 5, 2>>

InversePermutation ==
  [i \in 0..8 |-> CHOOSE j \in 0..8 : ClockwisePermutation[j + 1] = i]

\* The move m replaces its own face f of s by g with g[i] = f[p[i]], p being
\* the clockwise permutation for an unprimed m and its inverse for a primed m.
TurnsFaceByPermutation(s, m) ==
  LET f == s[MoveFace(m)]
      g == applyMoveToCubeState(s, m)[MoveFace(m)]
  IN  g = IF IsPrimed(m) THEN [i \in 0..8 |-> f[InversePermutation[i]]]
                           ELSE [i \in 0..8 |-> f[ClockwisePermutation[i + 1]]]

\* The same on a cube of 54 distinct labels, and the round trip of the two
\* helpers on a face of 9 distinct labels.
RotationOnLabels ==
  /\ \A m \in Moves : TurnsFaceByPermutation(Labelled, m)
  /\ LET f == [i \in 0..8 |-> i]
     IN  rotateFaceletArrayCounterClockwise(rotateFaceletArrayClockwise(f)) = f

\* C23 - Face rotation permutation: on the current cube state and on a cube
\* of 54 distinct labels, an unprimed move replaces the turning face f by g
\* with g[i] = f[p[i]] for p = [6,3,0,7,4,1,8,5,2], a primed move by g with
\* g[i] = f[q[i]] for q the inverse of p; and rotating a face clockwise and
\* then counter-clockwise gives the face back, for each face of the current
\* state and for a face of 9 distinct labels.
C23_FaceRotationPermutation ==
  /\ RotationOnLabels
  /\ \A m \in Moves : TurnsFaceByPermutation(cubeState, m)
  /\ \A n \in FaceNames :
        rotateFaceletArrayCounterClockwise(rotateFaceletArrayClockwise(cubeState[n])) = cubeState[n]

\* At rest after moves, some face is mixed enough that turning it clockwise
\* changes it, and turning it back restores it.
C23_Witness ==
  /\ pc = "idle"
  /\ moveHistory # <<>>
  /\ \E n \in FaceNames :
        /\ rotateFaceletArrayClockwise(cubeState[n]) # cubeState[n]
        /\ rotateFaceletArrayCounterClockwise(rotateFaceletArrayClockwise(cubeState[n])) = cubeState[n]
        /\ cubeState[n][0] # cubeState[n][2]


\* All 54 facelets.
Facelets ==
  {<<f, i>> : f \in FaceNames, i \in 0..8}

\* For each move, the facelets of the turning face and the three-facelet
\* strips of the four adjacent faces that border it: the facelets of the
\* pieces in the turning layer.
Layer ==
  [m \in Moves |-> {fl \in Facelets : Dot(RefPosition(fl[1], fl[2]), Normal(MoveFace(m))) = 1}]

\* For each move and each face, the indices of the facelets outside the
\* layer of the move.
Outside ==
  [m \in Moves |-> [f \in FaceNames |-> {i \in 0..8 : <<f, i>> \notin Layer[m]}]]

\* The move m leaves every facelet of s outside its layer as it is.
KeepsOutside(s, m) ==
  LET t == applyMoveToCubeState(s, m)
  IN  \A f \in FaceNames : \A i \in Outside[m][f] : t[f][i] = s[f][i]

\* The facelets of s that the move m changes.
Changed(s, m) ==
  LET t == applyMoveToCubeState(s, m)
  IN  {fl \in Facelets : t[fl[1]][fl[2]] # s[fl[1]][fl[2]]}

\* The layers have the claimed shape: the 9 facelets of the turning face, 3
\* of each adjacent face and none of the opposite face; and on a cube of 54
\* distinct labels each move changes exactly its layer but the centre.
LayerShape ==
  \A m \in Moves :
     /\ Cardinality(Layer[m]) = 21
     /\ {fl \in Layer[m] : fl[1] = MoveFace(m)} = {<<MoveFace(m), i>> : i \in 0..8}
     /\ \A f \in FaceNames \ {MoveFace(m)} :
           Cardinality({fl \in Layer[m] : fl[1] = f}) = IF Normal(f) = [k \in 1..3 |-> -Normal(MoveFace(m))[k]] THEN 0 ELSE 3
     /\ Changed(Labelled, m) = Layer[m] \ {<<MoveFace(m), 4>>}

\* C24 - Frame of a move: the layer of each move is the 9 facelets of the
\* turning face and 12 facelets in strips of three on the four adjacent
\* faces; in the current state a move changes facelets of its layer only, and
\* on a cube of 54 distinct labels it changes exactly the layer but the
\* centre; the 9 facelets of the opposite face and the other 24 of the
\* adjacent faces stay as they are.
C24_MoveFrame ==
  /\ LayerShape
  /\ \A m \in Moves : KeepsOutside(cubeState, m)

\* In an unsolved state at rest some move changes strip facelets of an
\* adjacent face and leaves that face's other six facelets alone.
C24_Witness ==
  /\ pc = "idle"
  /\ ~checkSolved(cubeState)
  /\ \E m \in Moves : \E f \in FaceNames \ {MoveFace(m)} :
        /\ \E fl \in Changed(cubeState, m) : fl[1] = f
        /\ Changed(cubeState, m) \subseteq Layer[m]
        /\ Cardinality({fl \in Facelets \ Changed(cubeState, m) : fl[1] = f}) >= 6


\* C25 - Guarded calls are no-ops: a call of scrambleCube, applyMove or
\* resetCube while isAnimating is true, and a call of solveCube while
\* isAnimating or isSolved is true, changes none of cubeState, moveHistory,
\* isSolved and isAnimating, and leaves no request behind: the operation in
\* flight, its position and its pending callback are as before.
C25_GuardedCallsNoOps ==
  [][(\/ (isAnimating /\ (scrambleCube \/ resetCube \/ \E move \in Moves \cup InvalidMoves : applyMove(move)))
      \/ ((isAnimating \/ isSolved) /\ solveCube))
       => UNCHANGED <<cubeState, moveHistory, isSolved, isAnimating, pc, seqIdx, curMove, awaiting, elapsed, nCalls>>]_vars

\* solveCube was called on a cube at rest that moves had brought back to
\* solved, and was dropped.
C25_Witness ==
  /\ pc = "idle"
  /\ ~isAnimating
  /\ isSolved
  /\ moveHistory # <<>>
  /\ result = "returned"


\* C26 - Status flag agrees with the oracle when idle: in every reachable
\* state in which isAnimating is false, isSolved equals checkSolved() of the
\* current cube state.
C26_FlagAgreesWhenIdle ==
  ~isAnimating => (isSolved <=> checkSolved(cubeState))

\* An operation has completed and left an unsolved cube: flag and oracle are
\* both false.
C26_Witness ==
  /\ ~isAnimating
  /\ result = "fulfilled"
  /\ ~isSolved
  /\ ~checkSolved(cubeState)


C28_HistoryOnlyValidMoves ==
  [][\A i \in 1..Len(moveHistory') : moveHistory'[i] \in Moves]_vars


\* The pairs of moves on opposite faces.
OppositePairs ==
  ({"U", "U'"} \X {"D", "D'"}) \cup ({"R", "R'"} \X {"L", "L'"}) \cup ({"F", "F'"} \X {"B", "B'"})

\* a then b gives the same state as b then a.
Commute(s, a, b) ==
  applyMoveToCubeState(applyMoveToCubeState(s, a), b) = applyMoveToCubeState(applyMoveToCubeState(s, b), a)

\* The opposite pairs commute on a cube of 54 distinct labels.
CommuteOnLabels ==
  \A ab \in OppositePairs : Commute(Labelled, ab[1], ab[2])

\* C29 - Opposite-face moves commute: in every reachable state, and on a cube
\* of 54 distinct labels, for each pair of moves on opposite faces applying
\* one and then the other gives the same state in either order.
C29_OppositeMovesCommute ==
  /\ CommuteOnLabels
  /\ \A ab \in OppositePairs : Commute(cubeState, ab[1], ab[2])

\* An unsolved state at rest in which U and D commute and change the state
\* while the adjacent pair U, R does not commute.
C29_Witness ==
  /\ pc = "idle"
  /\ ~checkSolved(cubeState)
  /\ Commute(cubeState, "U", "D")
  /\ applyMoveToCubeState(applyMoveToCubeState(cubeState, "U"), "D") # applyMoveToCubeState(cubeState, "U")
  /\ ~Commute(cubeState, "U", "R")


\* Longest move sequence given to optimize_move_sequence.
MaxSeqLen ==
  3

\* The inner while loop of optimize_move_sequence: count, starting from 1,
\* grows while moves[i + count] exists and equals current_move (i counts
\* from 1 here).
RECURSIVE CountRun(_, _, _)
CountRun(moves, i, count) ==
  IF i + count <= Len(moves) /\ moves[i + count] = moves[i]
  THEN CountRun(moves, i, count + 1)
  ELSE count

\* The outer while loop from position i on: what it appends to optimized.
RECURSIVE OptimizeFrom(_, _)
OptimizeFrom(moves, i) ==
  IF i > Len(moves) THEN <<>>
  ELSE LET current_move == moves[i]
           count == CountRun(moves, i, 1)
           appended == CASE count % 4 = 1 -> <<current_move>>
                         [] count % 4 = 2 -> <<current_move \o "2">>
                         [] count % 4 = 3 -> <<current_move \o "'">>
                         [] OTHER         -> <<>>
       IN  appended \o OptimizeFrom(moves, i + count)

optimize_move_sequence(moves) ==
  OptimizeFrom(moves, 1)

\* The sequences of at most MaxSeqLen of the 12 move symbols.
MoveSequences ==
  UNION {[1..n -> Moves] : n \in 0..MaxSeqLen}

\* A double turn: a face letter followed by '2'.
DoubleTurns ==
  {f \o "2" : f \in FaceNames}

\* The effect of a reduced sequence: a double turn is its face's move applied
\* twice, any other symbol is what applyMoveToCubeState makes of it.
RECURSIVE ApplyReduced(_, _)
ApplyReduced(s, q) ==
  IF q = <<>> THEN s
  ELSE LET x == Head(q)
           t == IF x \in DoubleTurns
                THEN LET f == CHOOSE g \in FaceNames : g \o "2" = x
                     IN  applyMoveToCubeState(applyMoveToCubeState(s, f), f)
                ELSE applyMoveToCubeState(s, x)
       IN  ApplyReduced(t, Tail(q))

\* C30 - Move-sequence reduction preserves meaning (as claimed): for every
\* sequence of the 12 move symbols, every element of what
\* optimize_move_sequence returns is a valid move symbol or a valid double
\* turn, and the returned sequence has the same net effect on the cube state
\* as the input sequence.
C30_ReductionPreservesMeaning ==
  \A q \in MoveSequences :
     LET o == optimize_move_sequence(q)
     IN  /\ \A i \in 1..Len(o) : o[i] \in Moves \cup DoubleTurns
         /\ ApplyReduced(cubeState, o) = ApplySeq(cubeState, q)

====
